---- MODULE Spec2Model ----
(***************************************************************************)
(* registry-sync: a daemon that mirrors container images between           *)
(* registries.  Each cycle it launches one pull/tag/push job per           *)
(* configured image pair, waits for all of them, prunes untagged local     *)
(* images, reloads its configuration and sleeps.                           *)
(*                                                                         *)
(* Strings are sequences of one-character strings, so that prefix, suffix, *)
(* split and base64 are computed as the Go code computes them.             *)
(***************************************************************************)
EXTENDS Integers, Sequences, FiniteSets, TLC

\* ------------------------------------------------------------------ bounds
\* Number of scheduler cycles explored before the sleep is no longer taken.
MaxCycles == 2

\* --------------------------------------------------------- string helpers
\* The printable ASCII characters, code 32 (space) to 126 (~); the grave
\* accent (code 96) is written GRAVE.
Printable ==
  <<" ", "!", "\"", "#", "$", "%", "&", "'", "(", ")", "*", "+", ",", "-", ".", "/", "0", "1", "2",
  "3", "4", "5", "6", "7", "8", "9", ":", ";", "<", "=", ">", "?", "@", "A", "B", "C", "D", "E",
  "F", "G", "H", "I", "J", "K", "L", "M", "N", "O", "P", "Q", "R", "S", "T", "U", "V", "W", "X",
  "Y", "Z", "[", "\\", "]", "^", "_", "GRAVE", "a", "b", "c", "d", "e", "f", "g", "h", "i", "j", "k",
  "l", "m", "n", "o", "p", "q", "r", "s", "t", "u", "v", "w", "x", "y", "z", "{", "|", "}", "~">>

\* The byte value of a character.
Code(c) == 31 + (CHOOSE i \in 1..Len(Printable) : Printable[i] = c)

\* The character of a byte value.
Chr(b) == Printable[b - 31]

\* strings.HasPrefix
HasPrefix(s, prefix) ==
  /\ Len(s) >= Len(prefix)
  /\ SubSeq(s, 1, Len(prefix)) = prefix

\* strings.HasSuffix
HasSuffix(s, suffix) ==
  /\ Len(s) >= Len(suffix)
  /\ SubSeq(s, Len(s) - Len(suffix) + 1, Len(s)) = suffix

\* strings.SplitN(s, sep, 2) for a one-character separator: the text before
\* the first separator and the text after it, or the whole text alone.
SplitN2(s, sep) ==
  IF \E i \in 1..Len(s) : s[i] = sep
    THEN LET i == CHOOSE k \in 1..Len(s) :
                    /\ s[k] = sep
                    /\ \A m \in 1..(k - 1) : s[m] # sep
         IN  <<SubSeq(s, 1, i - 1), SubSeq(s, i + 1, Len(s))>>
    ELSE <<s>>

\* ----------------------------------------------------------------- base64
StdAlphabet ==
  <<"A", "B", "C", "D", "E", "F", "G", "H", "I", "J", "K", "L", "M", "N", "O", "P", "Q", "R", "S",
  "T", "U", "V", "W", "X", "Y", "Z", "a", "b", "c", "d", "e", "f", "g", "h", "i", "j", "k", "l",
  "m", "n", "o", "p", "q", "r", "s", "t", "u", "v", "w", "x", "y", "z", "0", "1", "2", "3", "4",
  "5", "6", "7", "8", "9", "+", "/">>

URLAlphabet ==
  <<"A", "B", "C", "D", "E", "F", "G", "H", "I", "J", "K", "L", "M", "N", "O", "P", "Q", "R", "S",
  "T", "U", "V", "W", "X", "Y", "Z", "a", "b", "c", "d", "e", "f", "g", "h", "i", "j", "k", "l",
  "m", "n", "o", "p", "q", "r", "s", "t", "u", "v", "w", "x", "y", "z", "0", "1", "2", "3", "4",
  "5", "6", "7", "8", "9", "-", "_">>

\* The bytes of a text.
Bytes(s) == [i \in 1..Len(s) |-> Code(s[i])]

\* Base64 with padding of a byte sequence under an alphabet
\* (base64.Encoding.EncodeToString).
RECURSIVE EncodeBytes(_, _)
EncodeBytes(alphabet, b) ==
  IF Len(b) = 0 THEN <<>>
  ELSE IF Len(b) = 1 THEN
    LET n == b[1] * 65536
    IN  <<alphabet[(n \div 262144) + 1], alphabet[((n \div 4096) % 64) + 1], "=", "=">>
  ELSE IF Len(b) = 2 THEN
    LET n == b[1] * 65536 + b[2] * 256
    IN  <<alphabet[(n \div 262144) + 1], alphabet[((n \div 4096) % 64) + 1],
          alphabet[((n \div 64) % 64) + 1], "=">>
  ELSE
    LET n == b[1] * 65536 + b[2] * 256 + b[3]
    IN  <<alphabet[(n \div 262144) + 1], alphabet[((n \div 4096) % 64) + 1],
          alphabet[((n \div 64) % 64) + 1], alphabet[(n % 64) + 1]>>
        \o EncodeBytes(alphabet, SubSeq(b, 4, Len(b)))

EncodeToString(alphabet, s) == EncodeBytes(alphabet, Bytes(s))

\* The value of a character in an alphabet, or -1.
Sextet(alphabet, c) ==
  IF \E i \in 1..64 : alphabet[i] = c
    THEN (CHOOSE i \in 1..64 : alphabet[i] = c) - 1
    ELSE -1

\* A padded base64 text is well formed under an alphabet: whole quanta,
\* padding only at the very end, every other character in the alphabet.
WellFormed(alphabet, s) ==
  /\ Len(s) % 4 = 0
  /\ \A i \in 1..Len(s) :
       IF s[i] = "="
         THEN /\ i >= Len(s) - 1
              /\ \A k \in i..Len(s) : s[k] = "="
         ELSE Sextet(alphabet, s[i]) >= 0

RECURSIVE DecodeQuanta(_, _)
DecodeQuanta(alphabet, s) ==
  IF Len(s) = 0 THEN <<>>
  ELSE
    LET v(i) == IF s[i] = "=" THEN 0 ELSE Sextet(alphabet, s[i])
        n == v(1) * 262144 + v(2) * 4096 + v(3) * 64 + v(4)
        out == IF s[3] = "=" THEN <<Chr(n \div 65536)>>
               ELSE IF s[4] = "=" THEN <<Chr(n \div 65536), Chr((n \div 256) % 256)>>
               ELSE <<Chr(n \div 65536), Chr((n \div 256) % 256), Chr(n % 256)>>
    IN  out \o DecodeQuanta(alphabet, SubSeq(s, 5, Len(s)))

\* base64.Encoding.DecodeString: the decoded text, or an error.
DecodeString(alphabet, s) ==
  IF WellFormed(alphabet, s)
    THEN [err |-> FALSE, text |-> DecodeQuanta(alphabet, s)]
    ELSE [err |-> TRUE, text |-> <<>>]

\* ------------------------------------------------------------ credentials
\* What json.Marshal writes for one character of a string: the quote and
\* the backslash get a backslash, and <, > and & are written as \u003c,
\* \u003e and \u0026 (HTML escaping is on in json.Marshal).
JSONEscape(c) ==
  CASE c = "\"" -> <<"\\", "\"">>
    [] c = "\\" -> <<"\\", "\\">>
    [] c = "<" -> <<"\\", "u", "0", "0", "3", "c">>
    [] c = ">" -> <<"\\", "u", "0", "0", "3", "e">>
    [] c = "&" -> <<"\\", "u", "0", "0", "2", "6">>
    [] OTHER -> <<c>>

\* The text of a string between the quotes of its JSON encoding.
RECURSIVE JSONString(_)
JSONString(s) ==
  IF s = <<>> THEN <<>> ELSE JSONEscape(Head(s)) \o JSONString(Tail(s))

\* json.Marshal of a registry.AuthConfig holding a user name and a password;
\* every field of AuthConfig is omitempty.
MarshalAuthConfig(username, password) ==
  LET u == IF username = <<>> THEN <<>>
           ELSE <<"\"", "u", "s", "e", "r", "n", "a", "m", "e", "\"", ":", "\"">>
                  \o JSONString(username) \o <<"\"">>
      p == IF password = <<>> THEN <<>>
           ELSE <<"\"", "p", "a", "s", "s", "w", "o", "r", "d", "\"", ":", "\"">>
                  \o JSONString(password) \o <<"\"">>
      sep == IF u # <<>> /\ p # <<>> THEN <<",">> ELSE <<>>
  IN  <<"{">> \o u \o sep \o p \o <<"}">>

\* registry.EncodeAuthConfig: URL-safe base64 of the JSON of the AuthConfig.
EncodeAuthConfig(username, password) ==
  EncodeToString(URLAlphabet, MarshalAuthConfig(username, password))

\* A map[string]RegistryAuth: nil, or a function from registry keys to
\* entries.
NilAuths == [nil |-> TRUE, m |-> <<>>]
MakeAuths(f) == [nil |-> FALSE, m |-> f]
LenAuths(a) == IF a.nil THEN 0 ELSE Cardinality(DOMAIN a.m)

\* A RegistryAuth that carries only a token.
TokenOnly(token) == [Auth |-> token, Username |-> <<>>, Password |-> <<>>]

\* loadDefaultAuth: the credentials of the per-user store $HOME/.docker/config.json.
\* env.kind is what the file system answers; env.auths is the auths object of
\* the parsed store.  The result is the map, or a panic of the process.
loadDefaultAuth(env) ==
  IF env.kind \in {"nohome", "missing", "unreadable", "unparseable"}
    THEN [panic |-> FALSE, auths |-> NilAuths]
    ELSE
      LET keys == DOMAIN env.auths
          decoded(k) == DecodeString(URLAlphabet, env.auths[k].Auth)
          credentials(k) == SplitN2(decoded(k).text, ":")
          kept == {k \in keys : ~decoded(k).err}
      IN  IF \E k \in kept : Len(credentials(k)) < 2
            THEN [panic |-> TRUE, auths |-> NilAuths]
            ELSE [panic |-> FALSE,
                  auths |-> MakeAuths([k \in kept |->
                     TokenOnly(EncodeAuthConfig(credentials(k)[1], credentials(k)[2]))])]

\* The branch of loadConfig that rebuilds a non-empty auths object: an entry
\* without an auth blob gets the encoding of its user name and password; an
\* entry with an auth blob is not copied.
EncodeConfigAuths(auths) ==
  LET keys == {k \in DOMAIN auths.m : auths.m[k].Auth = <<>>}
  IN  MakeAuths([k \in keys |->
         TokenOnly(EncodeAuthConfig(auths.m[k].Username, auths.m[k].Password))])

\* loadConfig(path): env.fetch and env.read are the outcomes of http.Get and of
\* reading the body or the file, env.parse that of json.Unmarshal, env.doc the
\* parsed document and env.store the state of the credential store.  The
\* result carries the error, whether the call panicked, the configuration
\* returned and the document as json.Unmarshal left it (parsed).
loadConfig(path, env) ==
  LET none == [Images |-> <<>>, Auths |-> NilAuths, Duration |-> 0, DisablePrune |-> FALSE]
      failed(e) == [err |-> e, panic |-> FALSE, config |-> none, parsed |-> none]
  IN  IF HasPrefix(path, <<"h", "t", "t", "p">>) /\ ~env.fetch
        THEN failed("failed to fetch config")
      ELSE IF ~env.read THEN failed("failed to read config")
      ELSE IF ~env.parse THEN failed("failed to parse config")
      ELSE IF env.doc.Auths.nil \/ LenAuths(env.doc.Auths) = 0
        THEN LET d == loadDefaultAuth(env.store)
             IN  [err |-> "", panic |-> d.panic,
                  config |-> [env.doc EXCEPT !.Auths = d.auths], parsed |-> env.doc]
        ELSE [err |-> "", panic |-> FALSE,
              config |-> [env.doc EXCEPT !.Auths = EncodeConfigAuths(env.doc.Auths)],
              parsed |-> env.doc]

\* ------------------------------------------------------------ environment
\* Image references and registry keys used by the configuration documents.
RefAX == <<"a", "/", "x", ":", "1">>
RefAX2 == <<"a", "/", "x", ":", "2">>
RefBX == <<"b", "/", "x", ":", "1">>
RefBX2 == <<"b", "/", "x", ":", "2">>
RefBY == <<"b", "/", "y", ":", "1">>
KeyA == <<"a">>
KeyASlash == <<"a", "/">>
KeyB == <<"b">>
KeyC == <<"c">>

\* An auths entry of a document given as user name and password, and one
\* given as an auth blob.
UserPass(u, p) == [Auth |-> <<>>, Username |-> u, Password |-> p]
Blob(b) == [Auth |-> b, Username |-> <<>>, Password |-> <<>>]

\* base64 of "u:p", as docker login writes it.
BlobUP == <<"d", "T", "p", "w">>
\* base64 of "up": decodes to a text without a colon.
BlobNoColon == <<"d", "X", "A", "=">>
\* Not base64 at all.
BlobGarbage == <<"!", "!">>

\* Two jobs with the same source and targets in two repositories; one key is
\* a prefix of the source; the key of the targets is given as an auth blob.
Doc1 ==
  [Images |-> <<[Source |-> RefAX, Target |-> RefBX], [Source |-> RefAX, Target |-> RefBY]>>,
   Auths |-> MakeAuths([k \in {KeyA, KeyB} |->
                IF k = KeyA THEN UserPass(<<"u">>, <<"p">>) ELSE Blob(BlobUP)]),
   Duration |-> 60, DisablePrune |-> FALSE]

\* Two jobs with the same target, whose sources are two tags of one
\* repository; no auths; pruning disabled.
Doc2 ==
  [Images |-> <<[Source |-> RefAX, Target |-> RefBX], [Source |-> RefAX2, Target |-> RefBX]>>,
   Auths |-> NilAuths, Duration |-> 30, DisablePrune |-> TRUE]

\* One job, no auths, pruning enabled.
Doc3 ==
  [Images |-> <<[Source |-> RefAX, Target |-> RefBX]>>,
   Auths |-> MakeAuths(<<>>), Duration |-> 60, DisablePrune |-> FALSE]

\* The same entry twice; the only key of the auths is the empty string.
Doc4 ==
  [Images |-> <<[Source |-> RefAX, Target |-> RefBX], [Source |-> RefAX, Target |-> RefBX]>>,
   Auths |-> MakeAuths([k \in {<<>>} |-> UserPass(<<"u">>, <<"p">>)]),
   Duration |-> 30, DisablePrune |-> TRUE]

\* No entry at all; the password holds characters that json.Marshal escapes.
Doc5 ==
  [Images |-> <<>>,
   Auths |-> MakeAuths([k \in {KeyA} |-> UserPass(<<"u">>, <<"p", "\"", "<">>)]),
   Duration |-> 60, DisablePrune |-> FALSE]

\* Two jobs with the same source whose targets are two tags of one
\* repository; two keys are prefixes of the source; pruning disabled.
Doc6 ==
  [Images |-> <<[Source |-> RefAX, Target |-> RefBX], [Source |-> RefAX, Target |-> RefBX2]>>,
   Auths |-> MakeAuths([k \in {KeyA, KeyASlash} |->
                IF k = KeyA THEN UserPass(<<"u">>, <<"p">>) ELSE UserPass(<<"v">>, <<"q">>)]),
   Duration |-> 30, DisablePrune |-> TRUE]

Docs == {Doc1, Doc2, Doc3, Doc4, Doc5, Doc6}

\* The states of the per-user credential store.
StoreEnvs ==
  {[kind |-> k, auths |-> <<>>] : k \in {"nohome", "missing", "unreadable", "unparseable"}}
  \cup {[kind |-> "ok", auths |-> [k \in {KeyB, KeyC} |->
                                     IF k = KeyB THEN Blob(BlobUP) ELSE Blob(BlobGarbage)]],
        [kind |-> "ok", auths |-> [k \in {KeyA} |-> Blob(BlobNoColon)]],
        [kind |-> "ok", auths |-> [k \in {KeyB} |-> Blob(<<>>)]]}

\* What the outside world can answer to one loadConfig call.
LoadEnvs ==
  {[fetch |-> FALSE, read |-> TRUE, parse |-> TRUE, doc |-> Doc3, store |-> [kind |-> "missing", auths |-> <<>>]],
   [fetch |-> TRUE, read |-> FALSE, parse |-> TRUE, doc |-> Doc3, store |-> [kind |-> "missing", auths |-> <<>>]],
   [fetch |-> TRUE, read |-> TRUE, parse |-> FALSE, doc |-> Doc3, store |-> [kind |-> "missing", auths |-> <<>>]]}
  \cup {[fetch |-> TRUE, read |-> TRUE, parse |-> TRUE, doc |-> d, store |-> st] :
          d \in Docs, st \in StoreEnvs}

\* The value of the -config flag.
PathURL == <<"h", "t", "t", "p", ":", "/", "/", "h", "/", "c">>
\* The daemon is started with the URL, so that a load can fail at the
\* fetch, at the read and at the parse.
ConfigPath == PathURL

LastIndex(s, c) ==
  LET at == {i \in 1..Len(s) : s[i] = c}
  IN  IF at = {} THEN 0 ELSE CHOOSE i \in at : \A k \in at : k <= i

\* The repository of a reference: the reference without its tag.  With
\* All: true the client sends ImagePull and ImagePush this name and no tag.
Repo(ref) ==
  IF LastIndex(ref, ":") > LastIndex(ref, "/")
    THEN SubSeq(ref, 1, LastIndex(ref, ":") - 1)
    ELSE ref

\* The tags a source repository holds in its registry, and the image each
\* resolves to.
RegistryContent(repo) ==
  IF repo = Repo(RefAX)
    THEN <<[ref |-> RefAX, id |-> "imgA"], [ref |-> RefAX2, id |-> "imgA2"]>>
    ELSE <<>>

\* The tag an ImageList of an old API version reports for an untagged image.
NoneTag == <<"<", "n", "o", "n", "e", ">", ":", "<", "n", "o", "n", "e", ">">>

\* The local image store when the daemon starts: an untagged image, an image
\* listed with the sentinel tag, and an older image of a target reference.
InitialStore ==
  [id \in {"dang1", "dang2", "old"} |->
     CASE id = "dang1" -> [RepoTags |-> <<>>]
       [] id = "dang2" -> [RepoTags |-> <<NoneTag>>]
       [] id = "old" -> [RepoTags |-> <<RefBX>>]]

\* The order in which ImageList reports images, and their sizes.
ListOrder == <<"dang1", "dang2", "imgA", "imgA2", "old">>
SizeOf(id) ==
  CASE id = "dang1" -> 1
    [] id = "dang2" -> 2
    [] id = "old" -> 4
    [] OTHER -> 8

\* ------------------------------------------------------------------ state
VARIABLES
  pc,             \* position of the main goroutine
  config,         \* the current configuration (main's variable config)
  lastLoad,       \* result of the latest loadConfig call (newConfig, e)
  cycle,          \* number of the current cycle
  jobs,           \* the goroutines launched by processImages in this cycle
  gerr,           \* the error kept by the errgroup: <<>> or <<first error>>
  log,            \* lines logged by the main goroutine in this cycle
  store,          \* the local image store of the container engine
  pruneList,      \* the images returned by ImageList in this prune pass
  pruneIdx,       \* index of the image the prune loop looks at next
  deletedCount,   \* deletedCount of pruneUnusedImages
  spaceReclaimed, \* spaceReclaimed of pruneUnusedImages
  removeCalls,    \* IDs for which ImageRemove was called in this prune pass
  pushed,         \* what the pushes of this cycle made each target reference
                  \* name, as long as no job of the cycle has failed
  prev,           \* what the previous cycle pushed, if all its jobs succeeded;
                  \* kept until a job of this cycle fails or the barrier is passed
  sleptSinceLoad  \* sleeps that ended since the latest loadConfig call

vars == <<pc, config, lastLoad, cycle, jobs, gerr, log, store, pruneList,
          pruneIdx, deletedCount, spaceReclaimed, removeCalls, pushed, prev,
          sleptSinceLoad>>

\* No previous cycle to compare the present one with.
NoPrev == [clean |-> FALSE, pushed |-> <<>>]

NoConfig == [Images |-> <<>>, Auths |-> NilAuths, Duration |-> 0, DisablePrune |-> FALSE]

\* A log line of the main goroutine.
LogLine(msg, errs, id, n, m) == [msg |-> msg, errs |-> errs, id |-> id, n |-> n, m |-> m]

\* ------------------------------------------------------ credential lookup
\* The orders in which a range over the auths map can visit its keys.
Orders(auths) ==
  IF auths.nil THEN {<<>>}
  ELSE LET keys == DOMAIN auths.m
       IN  {o \in [1..Cardinality(keys) -> keys] :
              \A i, k \in 1..Cardinality(keys) : o[i] = o[k] => i = k}

\* The loop over config.Auths for one reference: every key that is a prefix
\* of the reference assigns its token, in the order of the iteration.
RECURSIVE ResolveFrom(_, _, _, _, _)
ResolveFrom(auths, ref, order, i, token) ==
  IF i > Len(order) THEN token
  ELSE ResolveFrom(auths, ref, order, i + 1,
                   IF HasPrefix(ref, order[i]) THEN auths.m[order[i]].Auth ELSE token)

\* The loop as it would be with a break after the first assignment.
ResolveAuthFirstMatch(auths, ref, order) ==
  LET hits == {i \in 1..Len(order) : HasPrefix(ref, order[i])}
  IN  IF hits = {} THEN <<>>
      ELSE auths.m[order[CHOOSE i \in hits : \A k \in hits : i <= k]].Auth

ResolveAuth(auths, ref, order) == ResolveFrom(auths, ref, order, 1, <<>>)

\* ------------------------------------------------------------ image store
RemoveTag(tags, t) == SelectSeq(tags, LAMBDA x : x # t)
HasTag(tags, t) == \E i \in 1..Len(tags) : tags[i] = t

\* The store after one tag of a repository has been pulled: the tag names
\* the image it resolves to.
PulledTag(st, ref, id) ==
  [i \in DOMAIN st \cup {id} |->
     IF i = id
       THEN IF i \in DOMAIN st
              THEN IF HasTag(st[i].RepoTags, ref) THEN st[i]
                   ELSE [RepoTags |-> Append(st[i].RepoTags, ref)]
              ELSE [RepoTags |-> <<ref>>]
       ELSE [RepoTags |-> RemoveTag(st[i].RepoTags, ref)]]

RECURSIVE PulledTags(_, _)
PulledTags(st, tags) ==
  IF tags = <<>> THEN st
  ELSE PulledTags(PulledTag(st, Head(tags).ref, Head(tags).id), Tail(tags))

\* The store after a completed ImagePull of ref with PullOptions{All: true}:
\* every tag of the repository of ref has been pulled.
Pulled(st, ref) == PulledTags(st, RegistryContent(Repo(ref)))

\* The image that carries a tag, if any.
Holders(st, ref) == {i \in DOMAIN st : HasTag(st[i].RepoTags, ref)}

\* The store after ImageTag(source, target).
Tagged(st, source, target) ==
  LET id == CHOOSE i \in Holders(st, source) : TRUE
  IN  [i \in DOMAIN st |->
         IF i = id
           THEN IF HasTag(st[i].RepoTags, target) THEN st[i]
                ELSE [RepoTags |-> Append(st[i].RepoTags, target)]
           ELSE [RepoTags |-> RemoveTag(st[i].RepoTags, target)]]

\* The answer of ImageList: the images of the store in the engine's order.
Listed(st) ==
  LET present == SelectSeq(ListOrder, LAMBDA i : i \in DOMAIN st)
  IN  [k \in 1..Len(present) |->
         [ID |-> present[k], RepoTags |-> st[present[k]].RepoTags, Size |-> SizeOf(present[k])]]

\* What an ImagePush of target with PushOptions{All: true} sends: every tag
\* the local store holds of the repository of target, with the image it
\* names when the engine accepts the push.
LocalTags(st, target) ==
  LET tags == {t \in UNION {{st[i].RepoTags[k] : k \in 1..Len(st[i].RepoTags)} : i \in DOMAIN st} :
                 Repo(t) = Repo(target)}
  IN  [t \in tags |-> CHOOSE i \in Holders(st, t) : TRUE]

\* The effect of a completed ImagePush on the registry: every tag that was
\* sent names there the image it was sent with.  rem collects these effects
\* for the pushes of one cycle.
Pushed(rem, sent) ==
  [t \in DOMAIN rem \cup DOMAIN sent |-> IF t \in DOMAIN sent THEN sent[t] ELSE rem[t]]

\* A cycle in which every job succeeded, seen when the sleep ends: the next
\* cycle will run the same entries.
CleanCycle(js, c) ==
  /\ Len(js) = Len(c.Images)
  /\ \A j \in 1..Len(js) : js[j].pc = "done" /\ js[j].err = "" /\ js[j].img = c.Images[j]

\* The store after a successful ImageRemove.
Removed(st, id) == [i \in DOMAIN st \ {id} |-> st[i]]

\* -------------------------------------------------------- processImage
\* processImage as it would be if a failed ImagePull call were only logged.
NextStepIgnorePullError(step, ok) ==
  IF step = "pulling" /\ ~ok THEN "tagging"
  ELSE IF ~ok THEN "done"
  ELSE CASE step = "pulling" -> "pullDrain"
         [] step = "pullDrain" -> "tagging"
         [] step = "tagging" -> "pushing"
         [] step = "pushing" -> "pushDrain"
         [] step = "pushDrain" -> "done"

\* processImage as it would be if the pull stream were not read before tagging.
NextStepSkipDrain(step, ok) ==
  IF ~ok THEN "done"
  ELSE CASE step = "pulling" -> "tagging"
         [] step = "pullDrain" -> "tagging"
         [] step = "tagging" -> "pushing"
         [] step = "pushing" -> "pushDrain"
         [] step = "pushDrain" -> "done"

\* processImage as it would be if it returned right after a successful
\* ImagePush call, without reading the push stream.
NextStepNoPushDrain(step, ok) ==
  IF ~ok THEN "done"
  ELSE CASE step = "pulling" -> "pullDrain"
         [] step = "pullDrain" -> "tagging"
         [] step = "tagging" -> "pushing"
         [] step = "pushing" -> "done"
         [] step = "pushDrain" -> "done"

\* The control flow of processImage: where a job goes when the step it is in
\* completes.  pulling, tagging and pushing are the ImagePull, ImageTag and
\* ImagePush calls; pullDrain and pushDrain are readAllToDiscard.  Every
\* failure returns.
NextStep(step, ok) ==
  IF ~ok THEN "done"
  ELSE CASE step = "pulling" -> "pullDrain"
         [] step = "pullDrain" -> "tagging"
         [] step = "tagging" -> "pushing"
         [] step = "pushing" -> "pushDrain"
         [] step = "pushDrain" -> "done"

\* The error processImage returns when a step fails.
StepError(step) ==
  CASE step = "pulling" -> "pull image failed"
    [] step = "pullDrain" -> "error while pulling image"
    [] step = "tagging" -> "tag image failed"
    [] step = "pushing" -> "push image failed"
    [] step = "pushDrain" -> "error while pushing image"

\* What a job does when a step completes: the call returns, or the stream is
\* read to its end (or to an error) and closed; then the next call is issued.
StepEvents(step, ok) ==
  LET completed ==
        CASE step = "pulling" -> IF ok THEN <<"pullRet">> ELSE <<"pullErr">>
          [] step = "pullDrain" -> <<IF ok THEN "pullDrain" ELSE "pullDrainErr", "pullClose">>
          [] step = "tagging" -> IF ok THEN <<"tagRet">> ELSE <<"tagErr">>
          [] step = "pushing" -> IF ok THEN <<"pushRet">> ELSE <<"pushErr">>
          [] step = "pushDrain" -> <<IF ok THEN "pushDrain" ELSE "pushDrainErr", "pushClose">>
      next == NextStep(step, ok)
      issued == CASE next = "tagging" -> <<"tag">>
                  [] next = "pushing" -> <<"push">>
                  [] OTHER -> <<>>
  IN  completed \o issued

\* The job after a step completed.
Stepped(job, ok) ==
  [job EXCEPT !.pc = NextStep(job.pc, ok),
              !.steps = @ \o StepEvents(job.pc, ok),
              !.err = IF ok THEN @ ELSE StepError(job.pc)]

\* errgroup.Group: the goroutine wrapper keeps the first non-nil error
\* returned by a job (errOnce).
FirstError(g, j, job) ==
  IF job.pc = "done" /\ job.err # "" /\ g = <<>>
    THEN <<[job |-> j, msg |-> job.err]>>
    ELSE g

\* The pull credential as it would be if it were looked up by the target.
PullAuthFromTarget(auths, img, order) == ResolveAuth(auths, img.Target, order)

\* The credentials the closure of processImages puts into the pull and the
\* push options of a job.
PullAuth(auths, img, order) == ResolveAuth(auths, img.Source, order)
PushAuth(auths, img, order) == ResolveAuth(auths, img.Target, order)

\* Wait as it would be if it returned at the first failed job.
WaitReadyFirstError(js, n) ==
  /\ Len(js) = n
  /\ \/ \A j \in 1..Len(js) : js[j].pc = "done"
     \/ \E j \in 1..Len(js) : js[j].err # ""

\* errgroup.Group.Wait returns once every launched goroutine has returned.
WaitReady(js, n) ==
  /\ Len(js) = n
  /\ \A j \in 1..Len(js) : js[j].pc = "done"

\* The reload as it would be if a failed load still set the interval.
ChooseConfigMerge(cur, res) ==
  IF res.err = "" THEN res.config ELSE [cur EXCEPT !.Duration = res.config.Duration]

\* The scheduler keeps a reloaded configuration only if the load succeeded.
ChooseConfig(cur, res) == IF res.err = "" THEN res.config ELSE cur

\* The prune test as it would be if it looked only at the number of tags.
PruneCandidateOneTag(img) == Len(img.RepoTags) <= 1

\* The test of the prune loop: which listed images ImageRemove is called for.
PruneCandidate(img) ==
  /\ ~(Len(img.RepoTags) > 0)
  /\ \/ Len(img.RepoTags) = 0
     \/ /\ Len(img.RepoTags) = 1
        /\ HasSuffix(img.RepoTags[1], <<":", "<", "n", "o", "n", "e", ">">>)

\* Every result a loadConfig call of the daemon can have.
LoadResults == {loadConfig(ConfigPath, env) : env \in LoadEnvs}

\* ---------------------------------------------------------------- actions
Init ==
  /\ pc = "loadInitial"
  /\ config = NoConfig
  /\ lastLoad = [err |-> "", panic |-> FALSE, config |-> NoConfig, parsed |-> NoConfig]
  /\ cycle = 0
  /\ jobs = <<>>
  /\ gerr = <<>>
  /\ log = <<>>
  /\ store = InitialStore
  /\ pruneList = <<>>
  /\ pruneIdx = 1
  /\ deletedCount = 0
  /\ spaceReclaimed = 0
  /\ removeCalls = <<>>
  /\ pushed = <<>>
  /\ prev = NoPrev
  /\ sleptSinceLoad = 0

\* main as it would be if the error of the initial loadConfig were only
\* logged.
LoadInitialIgnoreError ==
  /\ pc = "loadInitial"
  /\ \E res \in LoadResults :
           /\ lastLoad' = res
           /\ pc' = IF res.panic THEN "panic" ELSE "newClient"
           /\ config' = IF res.panic \/ res.err # "" THEN config ELSE res.config
  /\ UNCHANGED <<cycle, jobs, gerr, log, store, pruneList, pruneIdx,
                 deletedCount, spaceReclaimed, removeCalls>>
  /\ sleptSinceLoad' = 0
  /\ UNCHANGED <<pushed, prev>>

\* main: the initial loadConfig; an error is fatal.
LoadInitial ==
  /\ pc = "loadInitial"
  /\ \E res \in LoadResults :
           /\ lastLoad' = res
           /\ pc' = IF res.panic THEN "panic"
                    ELSE IF res.err # "" THEN "fatal" ELSE "newClient"
           /\ config' = IF res.panic \/ res.err # "" THEN config ELSE res.config
  /\ UNCHANGED <<cycle, jobs, gerr, log, store, pruneList, pruneIdx,
                 deletedCount, spaceReclaimed, removeCalls>>
  /\ sleptSinceLoad' = 0
  /\ UNCHANGED <<pushed, prev>>

\* main: client.NewClientWithOpts; an error is fatal.
NewClient ==
  /\ pc = "newClient"
  /\ \E ok \in BOOLEAN :
       /\ pc' = IF ok THEN "sync" ELSE "fatal"
       /\ cycle' = IF ok THEN 1 ELSE cycle
  /\ UNCHANGED <<config, lastLoad, jobs, gerr, log, store, pruneList, pruneIdx,
                 deletedCount, spaceReclaimed, removeCalls>>
  /\ UNCHANGED <<pushed, prev, sleptSinceLoad>>

\* processImages as it would be without the copy img := img, on a compiler
\* whose range variable is shared by the iterations: every goroutine sees the
\* entry the loop ended on.
LaunchSharedVariable ==
  /\ pc = "sync"
  /\ Len(jobs) < Len(config.Images)
  /\ jobs' = Append(jobs, [img |-> config.Images[Len(config.Images)], pc |-> "start",
                           pull |-> <<>>, push |-> <<>>, steps |-> <<>>, err |-> "",
                           order |-> <<>>, sent |-> <<>>])
  /\ UNCHANGED <<pc, config, lastLoad, cycle, gerr, log, store, pruneList, pruneIdx,
                 deletedCount, spaceReclaimed, removeCalls>>
  /\ UNCHANGED <<pushed, prev, sleptSinceLoad>>

\* processImages: g.Go for the next entry of config.Images, with a copy of it.
Launch ==
  /\ pc = "sync"
  /\ Len(jobs) < Len(config.Images)
  /\ jobs' = Append(jobs, [img |-> config.Images[Len(jobs) + 1], pc |-> "start",
                           pull |-> <<>>, push |-> <<>>, steps |-> <<>>, err |-> "",
                           order |-> <<>>, sent |-> <<>>])
  /\ UNCHANGED <<pc, config, lastLoad, cycle, gerr, log, store, pruneList, pruneIdx,
                 deletedCount, spaceReclaimed, removeCalls>>
  /\ UNCHANGED <<pushed, prev, sleptSinceLoad>>

\* A job resolves its credentials and calls ImagePull.
JobPullCall(j) ==
  /\ jobs[j].pc = "start"
  /\ \E order \in Orders(config.Auths) :
       jobs' = [jobs EXCEPT ![j] =
                  [@ EXCEPT !.pc = "pulling",
                            !.pull = PullAuth(config.Auths, jobs[j].img, order),
                            !.push = PushAuth(config.Auths, jobs[j].img, order),
                            !.steps = <<"pull">>,
                            !.order = order]]
  /\ UNCHANGED <<pc, config, lastLoad, cycle, gerr, log, store, pruneList, pruneIdx,
                 deletedCount, spaceReclaimed, removeCalls>>
  /\ UNCHANGED <<pushed, prev, sleptSinceLoad>>

\* ImagePull returns a stream or an error.
JobPullReturn(j) ==
  /\ jobs[j].pc = "pulling"
  /\ \E ok \in BOOLEAN :
       LET job == Stepped(jobs[j], ok)
       IN  /\ jobs' = [jobs EXCEPT ![j] = job]
           /\ gerr' = FirstError(gerr, j, job)
  /\ UNCHANGED <<pc, config, lastLoad, cycle, log, store, pruneList, pruneIdx,
                 deletedCount, spaceReclaimed, removeCalls>>
  /\ pushed' = IF jobs'[j].err # "" THEN <<>> ELSE pushed
  /\ prev' = IF jobs'[j].err # "" THEN NoPrev ELSE prev
  /\ UNCHANGED sleptSinceLoad

\* readAllToDiscard on the pull stream ends; on success the image is in the
\* local store and ImageTag is called.
JobPullDrained(j) ==
  /\ jobs[j].pc = "pullDrain"
  /\ \E ok \in BOOLEAN :
       LET job == Stepped(jobs[j], ok)
       IN  /\ jobs' = [jobs EXCEPT ![j] = job]
           /\ gerr' = FirstError(gerr, j, job)
           /\ store' = IF ok
                         THEN Pulled(store, jobs[j].img.Source)
                         ELSE store
  /\ UNCHANGED <<pc, config, lastLoad, cycle, log, pruneList, pruneIdx,
                 deletedCount, spaceReclaimed, removeCalls>>
  /\ pushed' = IF jobs'[j].err # "" THEN <<>> ELSE pushed
  /\ prev' = IF jobs'[j].err # "" THEN NoPrev ELSE prev
  /\ UNCHANGED sleptSinceLoad

\* ImageTag returns; it can succeed only if the source is in the store.  On
\* success ImagePush is called.
JobTagReturn(j) ==
  /\ jobs[j].pc = "tagging"
  /\ \E ok \in BOOLEAN :
       /\ ok => Holders(store, jobs[j].img.Source) # {}
       /\ LET job == Stepped(jobs[j], ok)
          IN  /\ jobs' = [jobs EXCEPT ![j] = job]
              /\ gerr' = FirstError(gerr, j, job)
              /\ store' = IF ok THEN Tagged(store, jobs[j].img.Source, jobs[j].img.Target)
                          ELSE store
  /\ UNCHANGED <<pc, config, lastLoad, cycle, log, pruneList, pruneIdx,
                 deletedCount, spaceReclaimed, removeCalls>>
  /\ pushed' = IF jobs'[j].err # "" THEN <<>> ELSE pushed
  /\ prev' = IF jobs'[j].err # "" THEN NoPrev ELSE prev
  /\ UNCHANGED sleptSinceLoad

\* ImagePush returns a stream or an error.  When it returns a stream the
\* engine has accepted the push of the tags the repository has at that
\* moment; they reach the registry while the stream is read.
JobPushReturn(j) ==
  /\ jobs[j].pc = "pushing"
  /\ \E ok \in BOOLEAN :
       LET job == [Stepped(jobs[j], ok) EXCEPT
                     !.sent = IF ok THEN LocalTags(store, jobs[j].img.Target) ELSE <<>>]
       IN  /\ jobs' = [jobs EXCEPT ![j] = job]
           /\ gerr' = FirstError(gerr, j, job)
  /\ UNCHANGED <<pc, config, lastLoad, cycle, log, store, pruneList, pruneIdx,
                 deletedCount, spaceReclaimed, removeCalls>>
  /\ pushed' = IF jobs'[j].err # "" THEN <<>> ELSE pushed
  /\ prev' = IF jobs'[j].err # "" THEN NoPrev ELSE prev
  /\ UNCHANGED sleptSinceLoad

\* readAllToDiscard on the push stream ends and the job returns.
JobPushDrained(j) ==
  /\ jobs[j].pc = "pushDrain"
  /\ \E ok \in BOOLEAN :
       LET job == [Stepped(jobs[j], ok) EXCEPT !.sent = <<>>]
       IN  /\ jobs' = [jobs EXCEPT ![j] = job]
           /\ gerr' = FirstError(gerr, j, job)
  /\ UNCHANGED <<pc, config, lastLoad, cycle, log, store, pruneList, pruneIdx,
                 deletedCount, spaceReclaimed, removeCalls>>
  /\ pushed' = IF \E k \in 1..Len(jobs') : jobs'[k].err # "" THEN <<>>
               ELSE Pushed(pushed, jobs[j].sent)
  /\ prev' = IF jobs'[j].err # "" THEN NoPrev ELSE prev
  /\ UNCHANGED sleptSinceLoad

\* processImages returns from g.Wait and main logs the error it returned.
Wait ==
  /\ pc = "sync"
  /\ WaitReady(jobs, Len(config.Images))
  /\ log' = IF gerr # <<>>
              THEN Append(log, LogLine("Error processing images", gerr, "", 0, 0))
              ELSE log
  /\ pc' = "prune"
  /\ UNCHANGED <<config, lastLoad, cycle, jobs, gerr, store, pruneList, pruneIdx,
                 deletedCount, spaceReclaimed, removeCalls>>
  /\ UNCHANGED <<pushed, prev, sleptSinceLoad>>

\* main as it would be if it called pruneUnusedImages without looking at
\* config.DisablePrune.
PruneStartAlways ==
  /\ pc = "prune"
  /\ \E ok \in BOOLEAN :
       /\ pc' = IF ok THEN "pruneLoop" ELSE "reload"
       /\ pruneList' = IF ok THEN Listed(store) ELSE pruneList
       /\ log' = LET started == Append(log, LogLine("Pruning unused and untagged images",
                                                     <<>>, "", 0, 0))
                 IN  IF ok THEN started
                     ELSE Append(started, LogLine("Error pruning unused images",
                                                  <<>>, "", 0, 0))
  /\ UNCHANGED <<config, lastLoad, cycle, jobs, gerr, store, pruneIdx,
                 deletedCount, spaceReclaimed, removeCalls>>
  /\ prev' = NoPrev
  /\ UNCHANGED <<pushed, sleptSinceLoad>>

\* main and pruneUnusedImages up to ImageList: skipped when pruning is
\* disabled; a failed ImageList is logged by main.
PruneStart ==
  /\ pc = "prune"
  /\ IF config.DisablePrune
       THEN /\ pc' = "reload"
            /\ UNCHANGED <<log, pruneList>>
       ELSE \E ok \in BOOLEAN :
              /\ pc' = IF ok THEN "pruneLoop" ELSE "reload"
              /\ pruneList' = IF ok THEN Listed(store) ELSE pruneList
              /\ log' = LET started == Append(log, LogLine("Pruning unused and untagged images",
                                                            <<>>, "", 0, 0))
                        IN  IF ok THEN started
                            ELSE Append(started, LogLine("Error pruning unused images",
                                                         <<>>, "", 0, 0))
  /\ UNCHANGED <<config, lastLoad, cycle, jobs, gerr, store, pruneIdx,
                 deletedCount, spaceReclaimed, removeCalls>>
  /\ prev' = NoPrev
  /\ UNCHANGED <<pushed, sleptSinceLoad>>

\* One iteration of the prune loop: a candidate is removed with Force and
\* PruneChildren; a failed removal is logged and the loop goes on.
PruneStep ==
  /\ pc = "pruneLoop"
  /\ pruneIdx <= Len(pruneList)
  /\ pruneIdx' = pruneIdx + 1
  /\ LET img == pruneList[pruneIdx]
     IN  IF PruneCandidate(img)
           THEN \E ok \in BOOLEAN :
                  /\ removeCalls' = Append(removeCalls, img.ID)
                  /\ store' = IF ok /\ img.ID \in DOMAIN store THEN Removed(store, img.ID)
                              ELSE store
                  /\ spaceReclaimed' = IF ok THEN spaceReclaimed + img.Size ELSE spaceReclaimed
                  /\ deletedCount' = IF ok THEN deletedCount + 1 ELSE deletedCount
                  /\ log' = Append(log, LogLine(IF ok THEN "Removed image"
                                                ELSE "Failed to remove image",
                                                <<>>, img.ID, 0, 0))
           ELSE UNCHANGED <<removeCalls, store, spaceReclaimed, deletedCount, log>>
  /\ UNCHANGED <<pc, config, lastLoad, cycle, jobs, gerr, pruneList>>
  /\ UNCHANGED <<pushed, prev, sleptSinceLoad>>

\* The prune loop ends: the totals are logged.
PruneFinish ==
  /\ pc = "pruneLoop"
  /\ pruneIdx > Len(pruneList)
  /\ log' = Append(log, LogLine("Pruned", <<>>, "", deletedCount, spaceReclaimed))
  /\ pc' = "reload"
  /\ UNCHANGED <<config, lastLoad, cycle, jobs, gerr, store, pruneList, pruneIdx,
                 deletedCount, spaceReclaimed, removeCalls>>
  /\ UNCHANGED <<pushed, prev, sleptSinceLoad>>

\* main: loadConfig at the end of the cycle, then the sleep begins.
Reload ==
  /\ pc = "reload"
  /\ \E res \in LoadResults :
           /\ lastLoad' = res
           /\ IF res.panic
                THEN /\ pc' = "panic"
                     /\ UNCHANGED <<config, log>>
                ELSE /\ pc' = "sleep"
                     /\ config' = ChooseConfig(config, res)
                     /\ log' = Append(log, LogLine("Sleeping", <<>>, "", config'.Duration, 0))
  /\ UNCHANGED <<cycle, jobs, gerr, store, pruneList, pruneIdx,
                 deletedCount, spaceReclaimed, removeCalls>>
  /\ sleptSinceLoad' = 0
  /\ UNCHANGED <<pushed, prev>>

\* The loop as it would be if loadConfig were called when the sleep has
\* ended, at the top of the next cycle.
WakeThenLoad ==
  /\ pc = "sleep"
  /\ cycle < MaxCycles
  /\ cycle' = cycle + 1
  /\ jobs' = <<>>
  /\ gerr' = <<>>
  /\ log' = <<>>
  /\ pruneList' = <<>>
  /\ pruneIdx' = 1
  /\ deletedCount' = 0
  /\ spaceReclaimed' = 0
  /\ removeCalls' = <<>>
  /\ \E res \in LoadResults :
       /\ lastLoad' = res
       /\ pc' = IF res.panic THEN "panic" ELSE "sync"
       /\ config' = IF res.panic THEN config ELSE ChooseConfig(config, res)
  /\ UNCHANGED store
  /\ prev' = IF CleanCycle(jobs, config) THEN [clean |-> TRUE, pushed |-> pushed]
           ELSE NoPrev
  /\ pushed' = <<>>
  /\ sleptSinceLoad' = 0

\* time.Sleep returns and the next cycle begins with a new errgroup.
Wake ==
  /\ pc = "sleep"
  /\ cycle < MaxCycles
  /\ cycle' = cycle + 1
  /\ pc' = "sync"
  /\ jobs' = <<>>
  /\ gerr' = <<>>
  /\ log' = <<>>
  /\ pruneList' = <<>>
  /\ pruneIdx' = 1
  /\ deletedCount' = 0
  /\ spaceReclaimed' = 0
  /\ removeCalls' = <<>>
  /\ UNCHANGED <<config, lastLoad, store>>
  /\ prev' = IF CleanCycle(jobs, config) THEN [clean |-> TRUE, pushed |-> pushed]
           ELSE NoPrev
  /\ pushed' = <<>>
  /\ sleptSinceLoad' = sleptSinceLoad + 1

JobStep ==
  \E j \in 1..Len(jobs) :
    \/ JobPullCall(j)
    \/ JobPullReturn(j)
    \/ JobPullDrained(j)
    \/ JobTagReturn(j)
    \/ JobPushReturn(j)
    \/ JobPushDrained(j)

Next ==
  \/ LoadInitial
  \/ NewClient
  \/ Launch
  \/ JobStep
  \/ Wait
  \/ PruneStart
  \/ PruneStep
  \/ PruneFinish
  \/ Reload
  \/ Wake

Spec == Init /\ [][Next]_vars

\* ----------------------------------------------------------------- claims
Has(steps, e) == \E i \in 1..Len(steps) : steps[i] = e
Pos(steps, e) == IF Has(steps, e) THEN CHOOSE i \in 1..Len(steps) : steps[i] = e ELSE 0
Before(steps, a, b) == Pos(steps, a) > 0 /\ Pos(steps, a) < Pos(steps, b)
Failed(job) == job.err # ""
Returned == pc \in {"prune", "pruneLoop", "reload"}

\* The events of a job whose calls all succeed.
FullSteps == <<"pull", "pullRet", "pullDrain", "pullClose", "tag", "tagRet",
               "push", "pushRet", "pushDrain", "pushClose">>

\* C1: a job whose pull failed (the call or the drain of its stream) never
\* calls ImageTag or ImagePush, a job whose tag failed never calls ImagePush,
\* and a step in which one job fails changes no other job.
C1_FailedStepStopsJob ==
  /\ [](\A j \in 1..Len(jobs) :
          /\ jobs[j].err \in {"pull image failed", "error while pulling image"}
               => ~Has(jobs[j].steps, "tag") /\ ~Has(jobs[j].steps, "push")
          /\ jobs[j].err = "tag image failed" => ~Has(jobs[j].steps, "push"))
  /\ [][\A j \in 1..Len(jobs) :
          (Len(jobs') = Len(jobs) /\ ~Failed(jobs[j]) /\ Failed(jobs'[j]))
            => \A k \in (1..Len(jobs)) \ {j} : jobs'[k] = jobs[k]]_vars

\* C1 witness: the first job failed at its pull call and never tagged, while
\* the second job of the same cycle went on to push.
C1_Witness ==
  /\ Len(jobs) = 2
  /\ jobs[1].err = "pull image failed"
  /\ jobs[1].steps = <<"pull", "pullErr">>
  /\ Has(jobs[2].steps, "push")

\* C2: when processImages has returned, every entry of the list has a job,
\* every job has returned, and every job that reports no error has run its
\* pull, tag and push to the end, whatever its siblings did.
C2_BarrierWithoutCancel ==
  Returned =>
    /\ Len(jobs) = Len(config.Images)
    /\ \A j \in 1..Len(jobs) :
         /\ jobs[j].pc = "done"
         /\ ~Failed(jobs[j]) => jobs[j].steps = FullSteps

\* C2 witness: processImages has returned, the first job failed at its pull
\* and the second completed its tag and push.
C2_Witness ==
  /\ pc = "prune"
  /\ Len(jobs) = 2
  /\ jobs[1].err = "pull image failed"
  /\ ~Failed(jobs[2])
  /\ Has(jobs[2].steps, "tagRet")
  /\ Has(jobs[2].steps, "pushClose")

\* The job errors contained in the lines main logged for processImages.
ReportedErrors ==
  UNION {{log[i].errs[k] : k \in 1..Len(log[i].errs)} :
           i \in {n \in 1..Len(log) : log[n].msg = "Error processing images"}}

\* C3: when processImages has returned, the error of every failed job is in
\* the logged aggregate, so k failed jobs give exactly k reported failures.
C3_EveryFailureReported ==
  Returned =>
    /\ \A j \in 1..Len(jobs) :
         Failed(jobs[j]) => [job |-> j, msg |-> jobs[j].err] \in ReportedErrors
    /\ Cardinality(ReportedErrors) = Cardinality({j \in 1..Len(jobs) : Failed(jobs[j])})

\* C4: within a job the pull call returns, its stream is read to the end and
\* closed before ImageTag is called; ImageTag returns before ImagePush is
\* called; and the job returns success only after the push stream has been
\* read to the end and closed.
C4_StepsStrictlyOrdered ==
  \A j \in 1..Len(jobs) :
    LET s == jobs[j].steps
    IN  /\ Has(s, "tag") => /\ Before(s, "pull", "pullRet")
                            /\ Before(s, "pullRet", "pullDrain")
                            /\ Before(s, "pullDrain", "pullClose")
                            /\ Before(s, "pullClose", "tag")
        /\ Has(s, "push") => /\ Before(s, "tag", "tagRet")
                             /\ Before(s, "tagRet", "push")
        /\ (jobs[j].pc = "done" /\ ~Failed(jobs[j])) =>
             /\ Before(s, "push", "pushRet")
             /\ Before(s, "pushRet", "pushDrain")
             /\ Before(s, "pushDrain", "pushClose")
             /\ s[Len(s)] = "pushClose"
        /\ \A a, b \in 1..Len(s) : s[a] = s[b] => a = b

\* C4 witness: a job has returned success.
C4_Witness ==
  \E j \in 1..Len(jobs) : jobs[j].pc = "done" /\ ~Failed(jobs[j]) /\ Len(jobs[j].steps) = 10

\* The image of the current list with an ID.
ListedImage(id) == pruneList[CHOOSE i \in 1..Len(pruneList) : pruneList[i].ID = id]

\* The references of the entries of a configuration.
ConfigRefs(c) ==
  {c.Images[i].Source : i \in 1..Len(c.Images)} \cup {c.Images[i].Target : i \in 1..Len(c.Images)}

OnlySentinel(tags) ==
  \/ Len(tags) = 0
  \/ Len(tags) = 1 /\ HasSuffix(tags[1], <<":", "<", "n", "o", "n", "e", ">">>)

\* C5: every ImageRemove of a prune pass is for an image that ImageList
\* reported without tags or with only the sentinel tag, never for an image
\* with a tag that is a source or a target of the current configuration.
C5_PruneOnlyUntagged ==
  \A i \in 1..Len(removeCalls) :
    /\ \E k \in 1..Len(pruneList) : pruneList[k].ID = removeCalls[i]
    /\ OnlySentinel(ListedImage(removeCalls[i]).RepoTags)
    /\ pc \in {"pruneLoop", "reload"} =>
         \A t \in 1..Len(ListedImage(removeCalls[i]).RepoTags) :
           ListedImage(removeCalls[i]).RepoTags[t] \notin ConfigRefs(config)

\* C5 witness: a prune pass is over, it called ImageRemove, and the list
\* held an image tagged with a reference of the configuration.
C5_Witness ==
  /\ pc = "reload"
  /\ Len(removeCalls) > 0
  /\ \E k \in 1..Len(pruneList) :
       \E t \in 1..Len(pruneList[k].RepoTags) : pruneList[k].RepoTags[t] \in ConfigRefs(config)

\* A prune pass whose ImageList succeeded has ended.
PruneOver == \E i \in 1..Len(log) : log[i].msg = "Pruned"

\* C6: a completed prune pass has called ImageRemove for every listed image
\* with no tag and for every listed image whose only tag is the sentinel.
C6_EveryCandidateRemoved ==
  PruneOver =>
    \A k \in 1..Len(pruneList) :
      OnlySentinel(pruneList[k].RepoTags) => Has(removeCalls, pruneList[k].ID)

\* C7: a failed reload leaves the current configuration as it was, the
\* configuration changes only to the whole result of a successful load, and
\* the sleep that follows uses the interval of the current configuration.
C7_FailedReloadKeepsConfig ==
  [][/\ (pc = "reload" /\ lastLoad'.err # "") => config' = config
     /\ config' # config =>
          /\ pc \in {"loadInitial", "reload"}
          /\ lastLoad'.err = ""
          /\ config' = lastLoad'.config
     /\ (pc = "reload" /\ pc' = "sleep") => log'[Len(log')].n = config'.Duration]_vars

\* C7 witness: the second cycle runs its jobs after a reload that failed.
C7_Witness ==
  /\ cycle = 2
  /\ pc = "sync"
  /\ lastLoad.err = "failed to parse config"
  /\ Len(jobs) = 2
  /\ config.Duration = 30

\* The tokens of the keys of a credential mapping that are prefixes of a
\* reference; the empty token if there is none.
MatchTokens(auths, ref) ==
  LET keys == IF auths.nil THEN {} ELSE {k \in DOMAIN auths.m : HasPrefix(ref, k)}
  IN  IF keys = {} THEN {<<>>} ELSE {auths.m[k].Auth : k \in keys}

Resolved(j) == jobs[j].pc # "start"

\* C8 as stated: two jobs of a cycle with the same source carry the same pull
\* credential, and two jobs with the same target the same push credential.
C8_SameReferenceSameCredential ==
  (pc = "sync") =>
    \A j, k \in 1..Len(jobs) :
      (Resolved(j) /\ Resolved(k)) =>
        /\ jobs[j].img.Source = jobs[k].img.Source => jobs[j].pull = jobs[k].pull
        /\ jobs[j].img.Target = jobs[k].img.Target => jobs[j].push = jobs[k].push

\* C8 amended: the pull credential of a job is the token of a key that is a
\* prefix of its source (none if there is no such key) and the push credential
\* the token of a key that is a prefix of its target; two jobs with the same
\* source carry the same pull credential when the keys that are prefixes of
\* the source carry one token, and likewise for the target and the push.
C8_CredentialFromOwnReference ==
  (pc = "sync") =>
    \A j, k \in 1..Len(jobs) :
      (Resolved(j) /\ Resolved(k)) =>
        /\ jobs[j].pull \in MatchTokens(config.Auths, jobs[j].img.Source)
        /\ jobs[j].push \in MatchTokens(config.Auths, jobs[j].img.Target)
        /\ (/\ jobs[j].img.Source = jobs[k].img.Source
            /\ Cardinality(MatchTokens(config.Auths, jobs[j].img.Source)) = 1)
             => jobs[j].pull = jobs[k].pull
        /\ (/\ jobs[j].img.Target = jobs[k].img.Target
            /\ Cardinality(MatchTokens(config.Auths, jobs[j].img.Target)) = 1)
             => jobs[j].push = jobs[k].push

\* C8 witness: two jobs with different sources and the same target carry the
\* same non-empty push credential, and their pulls are anonymous.
C8_Witness ==
  /\ pc = "sync"
  /\ Len(jobs) = 2
  /\ Resolved(1) /\ Resolved(2)
  /\ jobs[1].img.Source # jobs[2].img.Source
  /\ jobs[1].img.Target = jobs[2].img.Target
  /\ jobs[1].push # <<>>
  /\ jobs[1].push = jobs[2].push
  /\ jobs[1].pull = <<>>

\* C9: after a successful load of a document with auths, every key of the
\* document is in the loaded mapping, with base64(username:password) for an
\* entry given as user name and password and with the blob itself for an
\* entry given as an auth blob.
C9_ConfiguredAuthsLoaded ==
  (lastLoad.err = "" /\ ~lastLoad.panic /\ LenAuths(lastLoad.parsed.Auths) > 0) =>
    \A k \in DOMAIN lastLoad.parsed.Auths.m :
      LET e == lastLoad.parsed.Auths.m[k]
      IN  /\ ~lastLoad.config.Auths.nil
          /\ k \in DOMAIN lastLoad.config.Auths.m
          /\ lastLoad.config.Auths.m[k].Auth =
               IF e.Auth # <<>> THEN e.Auth
               ELSE EncodeToString(StdAlphabet, e.Username \o <<":">> \o e.Password)

\* C10: a load of a document without auths never terminates the process,
\* whatever the state of the per-user credential store.
C10_FallbackNeverFatal ==
  LenAuths(lastLoad.parsed.Auths) = 0 => (~lastLoad.panic /\ pc # "panic")

\* C11: once startup has succeeded (a cycle has begun) nothing terminates the
\* process, so the loop can always go on to its next cycle.
C11_LoopNeverStops ==
  cycle >= 1 => pc \notin {"panic", "fatal"}

\* The second of two successive cycles over the same entries in which every
\* remote call of every job succeeded, seen when its barrier is passed.
SecondCleanRun ==
  /\ pc = "prune"
  /\ cycle >= 2
  /\ prev.clean
  /\ CleanCycle(jobs, config)

\* The second run left every target naming what the first run left, reported
\* no error and went through the whole pipeline for every entry.
SameOutcome ==
  /\ pushed = prev.pushed
  /\ gerr = <<>>
  /\ \A i \in 1..Len(log) : log[i].msg # "Error processing images"
  /\ \A j \in 1..Len(jobs) : jobs[j].steps = FullSteps

\* Two entries whose targets are in one repository are the same entry.
IndependentEntries(c) ==
  \A i, k \in 1..Len(c.Images) :
    Repo(c.Images[i].Target) = Repo(c.Images[k].Target) => c.Images[i] = c.Images[k]

\* The weaker condition that entries whose targets are in one repository
\* have the same target reference.
OneTargetPerRepository(c) ==
  \A i, k \in 1..Len(c.Images) :
    Repo(c.Images[i].Target) = Repo(c.Images[k].Target) =>
      c.Images[i].Target = c.Images[k].Target

\* The weaker condition that entries with the same target reference have the
\* same source.
OneSourcePerTarget(c) ==
  \A i, k \in 1..Len(c.Images) :
    c.Images[i].Target = c.Images[k].Target => c.Images[i].Source = c.Images[k].Source

C12_OneSourcePerTargetNotEnough ==
  (SecondCleanRun /\ OneSourcePerTarget(config)) => SameOutcome

\* Excluding only entries that write two tags of one repository is not
\* enough either: this formula is violated by two entries with different
\* sources and the same target reference.
C12_OneTargetPerRepositoryNotEnough ==
  (SecondCleanRun /\ OneTargetPerRepository(config)) => SameOutcome

RemoveCount(id) == Cardinality({i \in 1..Len(removeCalls) : removeCalls[i] = id})

\* The log lines of the removals that succeeded, and the sizes they add up to.
RemovedLines == {i \in 1..Len(log) : log[i].msg = "Removed image"}
RECURSIVE SizeSum(_)
SizeSum(lines) ==
  IF lines = {} THEN 0
  ELSE LET i == CHOOSE x \in lines : TRUE
       IN  ListedImage(log[i].id).Size + SizeSum(lines \ {i})

\* The totals a completed prune pass reports are those of the removals that
\* succeeded; the pass reports no error; a failed ImageList is the only
\* error, and no removal follows it.
PruneTotalsExact ==
  /\ PruneOver =>
       /\ log[Len(log)].msg = "Pruned" \/ pc \notin {"pruneLoop", "reload"}
       /\ \A i \in 1..Len(log) :
            log[i].msg = "Pruned" =>
              /\ log[i].n = Cardinality(RemovedLines)
              /\ log[i].m = SizeSum(RemovedLines)
       /\ ~Has(log, LogLine("Error pruning unused images", <<>>, "", 0, 0))
       /\ \A k \in 1..Len(pruneList) : RemoveCount(pruneList[k].ID) <= 1
  /\ Has(log, LogLine("Error pruning unused images", <<>>, "", 0, 0)) =>
       removeCalls = <<>> /\ ~PruneOver

\* C13: a failed ImageRemove does not end the pass: a completed pass has
\* called ImageRemove exactly once for every candidate of the list (no tag,
\* or only the sentinel tag), it reports the count and the size of the
\* removals that succeeded and no error; only a failed ImageList is an error,
\* and then nothing is removed.
C13_FailedRemovalDoesNotAbort ==
  /\ PruneOver =>
       \A k \in 1..Len(pruneList) :
         OnlySentinel(pruneList[k].RepoTags) => RemoveCount(pruneList[k].ID) = 1
  /\ PruneTotalsExact

\* The number of times pruneUnusedImages was entered in this cycle.
PruneRuns ==
  Cardinality({i \in 1..Len(log) : log[i].msg = "Pruning unused and untagged images"})

\* The pruner has made a call in this cycle, or is about to.
PruneActive ==
  PruneRuns > 0 \/ pc = "pruneLoop" \/ pruneList # <<>> \/ removeCalls # <<>>

\* C14: the pruner runs at most once in a cycle and only after the barrier,
\* when every job of the cycle has returned, never while jobs run; when the
\* cycle's configuration disables pruning it makes no call; otherwise it has
\* run exactly once when the reload begins, whatever the jobs returned.
C14_PruneOnceAfterBarrier ==
  /\ PruneRuns <= 1
  /\ PruneActive =>
       /\ pc # "sync"
       /\ \A j \in 1..Len(jobs) : jobs[j].pc = "done"
  /\ pc \in {"prune", "pruneLoop", "reload"} =>
       /\ Len(jobs) = Len(config.Images)
       /\ config.DisablePrune => ~PruneActive
       /\ pc = "pruneLoop" => PruneRuns = 1
       /\ (pc = "reload" /\ ~config.DisablePrune) => PruneRuns = 1

\* C14 witness: the pruner has run once and removed an image in a cycle in
\* which a job failed, and the reload has not begun.
C14_Witness ==
  /\ pc = "reload"
  /\ ~config.DisablePrune
  /\ PruneRuns = 1
  /\ removeCalls # <<>>
  /\ \E j \in 1..Len(jobs) : Failed(jobs[j])

\* The main goroutine is inside a cycle, before its reload.
InCycle == pc \in {"sync", "prune", "pruneLoop", "reload"}

\* C15 as stated: the configuration a cycle uses was loaded at the top of
\* that cycle, after the preceding sleep ended.
C15_LoadedAtTopOfCycle ==
  (InCycle /\ cycle >= 1) => sleptSinceLoad = 0

\* C15 amended: the configuration is loaded at process start and at the end
\* of every cycle, before the sleep.  The first cycle uses the initial load;
\* every later cycle uses the result of the loads made before the sleep that
\* preceded it, so exactly one sleep has ended since the load it uses, and when
\* the sleep begins the load is the latest thing done.
C15_LoadedBeforeSleep ==
  /\ (InCycle /\ cycle = 1) => sleptSinceLoad = 0
  /\ (InCycle /\ cycle >= 2) => sleptSinceLoad = 1
  /\ pc = "sleep" => sleptSinceLoad = 0
  /\ (InCycle /\ lastLoad.err = "" /\ ~lastLoad.panic) => config = lastLoad.config

\* C15 witness: the jobs of the second cycle run with a configuration that
\* was loaded before the sleep.
C15_Witness ==
  /\ pc = "sync"
  /\ cycle = 2
  /\ sleptSinceLoad = 1
  /\ lastLoad.err = ""
  /\ config = lastLoad.config
  /\ Len(jobs) = Len(config.Images)
  /\ \E j \in 1..Len(jobs) : jobs[j].pc = "pulling"

\* No call has been made to the container engine since the process started.
NoWorkDone ==
  /\ cycle = 0
  /\ jobs = <<>>
  /\ pruneList = <<>>
  /\ removeCalls = <<>>
  /\ store = InitialStore
  /\ pushed = <<>>

\* The configurations a successful loadConfig can return.
LoadedConfigs == {r.config : r \in {x \in LoadResults : x.err = "" /\ ~x.panic}}

\* C16: a failed initial loadConfig or a failed client creation terminates
\* the process at once, before any pull, tag, push, list or remove; nothing
\* happens after the termination; a cycle runs only with a configuration that
\* a successful loadConfig returned.
C16_StartupErrorsFatal ==
  /\ pc \in {"loadInitial", "newClient", "fatal"} => NoWorkDone
  /\ (cycle = 0 /\ lastLoad.err # "") => pc = "fatal"
  /\ pc = "fatal" => ~ENABLED Next
  /\ cycle >= 1 => config \in LoadedConfigs

\* C16 witness: the process has terminated because the initial configuration
\* could not be parsed.
C16_Witness ==
  /\ pc = "fatal"
  /\ lastLoad.err = "failed to parse config"
  /\ NoWorkDone

\* Every job of the cycle works on the entry of the current configuration it
\* was launched for, with the credentials of that configuration.
JobsUseCurrentConfig ==
  /\ Len(jobs) <= Len(config.Images)
  /\ \A j \in 1..Len(jobs) :
       /\ jobs[j].img = config.Images[j]
       /\ jobs[j].pc # "start" =>
            /\ jobs[j].order \in Orders(config.Auths)
            /\ jobs[j].pull = PullAuth(config.Auths, jobs[j].img, jobs[j].order)
            /\ jobs[j].push = PushAuth(config.Auths, jobs[j].img, jobs[j].order)

\* C17: the current configuration is rebound only by the initial load and by
\* the reload, when every job of the cycle has returned; while the jobs of a
\* cycle are launched and run, it does not change, every job has the entry
\* and the credentials of that one configuration, and no step of a job
\* changes it.
C17_OneSnapshotPerCycle ==
  [][/\ config' # config =>
          /\ pc \in {"loadInitial", "reload"}
          /\ \A j \in 1..Len(jobs) : jobs[j].pc = "done"
          /\ jobs' = jobs
     /\ pc = "sync" => (config' = config /\ JobsUseCurrentConfig)
     /\ pc' = "sync" => JobsUseCurrentConfig']_vars

\* C17 witness: in the second cycle one job has returned and its sibling is
\* still running, both with credentials of the reloaded configuration.
C17_Witness ==
  /\ pc = "sync"
  /\ cycle = 2
  /\ Len(jobs) = 2
  /\ jobs[1].pc = "done"
  /\ jobs[2].pc = "tagging"
  /\ jobs[1].pull # <<>>
  /\ jobs[2].pull # <<>>
  /\ JobsUseCurrentConfig

\* The number of times an event occurs in the steps of a job.
Times(steps, e) == Cardinality({i \in 1..Len(steps) : steps[i] = e})

\* C18: the jobs of a cycle are the entries of the images list, one job per
\* entry and each with its own entry, duplicates included; when the barrier
\* has been passed every entry has had its job and its one pull; no job calls
\* pull, tag or push more than once.
C18_OneJobPerEntry ==
  /\ InCycle =>
       /\ Len(jobs) <= Len(config.Images)
       /\ \A j \in 1..Len(jobs) : jobs[j].img = config.Images[j]
  /\ (Returned \/ pc = "sleep") =>
       \A j \in 1..Len(jobs) : Times(jobs[j].steps, "pull") = 1
  /\ Returned => Len(jobs) = Len(config.Images)
  /\ \A j \in 1..Len(jobs) :
       /\ Times(jobs[j].steps, "pull") <= 1
       /\ Times(jobs[j].steps, "tag") <= 1
       /\ Times(jobs[j].steps, "push") <= 1
       /\ Failed(jobs[j]) => jobs[j].pc = "done"

\* C18 witness: the barrier has been passed in a cycle over two equal
\* entries; both were pulled, one job failed at its pull and was not retried,
\* the other pushed.
C18_Witness ==
  /\ Returned
  /\ Len(config.Images) = 2
  /\ config.Images[1] = config.Images[2]
  /\ Len(jobs) = 2
  /\ jobs[1].err = "pull image failed"
  /\ Times(jobs[1].steps, "pull") = 1
  /\ Times(jobs[2].steps, "push") = 1

\* The positions, in the order of one iteration over the auths, of the keys
\* that are prefixes of a reference.
Matching(order, ref) == {i \in 1..Len(order) : HasPrefix(ref, order[i])}
FirstOf(S) == CHOOSE i \in S : \A k \in S : i <= k
LastOf(S) == CHOOSE i \in S : \A k \in S : i >= k

\* The token of the first, and of the last, matching key of an iteration;
\* no token when no key matches.
FirstMatchToken(auths, order, ref) ==
  IF Matching(order, ref) = {} THEN <<>>
  ELSE auths.m[order[FirstOf(Matching(order, ref))]].Auth
LastMatchToken(auths, order, ref) ==
  IF Matching(order, ref) = {} THEN <<>>
  ELSE auths.m[order[LastOf(Matching(order, ref))]].Auth

\* C19 as stated: the token of an operation is that of the first key, in the
\* order of the iteration, that matches its reference; later matching keys do
\* not override it; without a matching key there is no token.
C19_FirstMatchWins ==
  InCycle =>
    \A j \in 1..Len(jobs) :
      jobs[j].pc # "start" =>
        /\ jobs[j].pull = FirstMatchToken(config.Auths, jobs[j].order, jobs[j].img.Source)
        /\ jobs[j].push = FirstMatchToken(config.Auths, jobs[j].order, jobs[j].img.Target)

\* C19 amended: the iteration is not left at a match, so the token is that of
\* the last matching key in the order of the iteration; without a matching
\* key, or with an empty or absent mapping, there is no token.
C19_LastMatchWins ==
  InCycle =>
    \A j \in 1..Len(jobs) :
      jobs[j].pc # "start" =>
        /\ jobs[j].pull = LastMatchToken(config.Auths, jobs[j].order, jobs[j].img.Source)
        /\ jobs[j].push = LastMatchToken(config.Auths, jobs[j].order, jobs[j].img.Target)
        /\ (config.Auths.nil \/ LenAuths(config.Auths) = 0) =>
             jobs[j].pull = <<>> /\ jobs[j].push = <<>>

\* C19 witness: two keys match the source of a job; its pull carries the
\* token of the one visited last, which is not the token of the one visited
\* first; no key matches its target and its push carries no token.
C19_Witness ==
  /\ InCycle
  /\ \E j \in 1..Len(jobs) :
       /\ jobs[j].pc # "start"
       /\ Cardinality(Matching(jobs[j].order, jobs[j].img.Source)) = 2
       /\ jobs[j].pull = LastMatchToken(config.Auths, jobs[j].order, jobs[j].img.Source)
       /\ jobs[j].pull # FirstMatchToken(config.Auths, jobs[j].order, jobs[j].img.Source)
       /\ Matching(jobs[j].order, jobs[j].img.Target) = {}
       /\ jobs[j].push = <<>>

\* The registry host of an image reference: the text before its first slash.
Host(ref) == SplitN2(ref, "/")[1]

\* A key names the host of a reference: it is the host, or the host followed
\* by the beginning of the path of the reference.
KeyNamesHost(key, ref) ==
  \/ key = Host(ref)
  \/ HasPrefix(key, Host(ref) \o <<"/">>) /\ HasPrefix(ref, key)

\* C20: the token stored under a key goes only with operations on references
\* of the host the key names, never with a reference that merely begins with
\* the characters of the key, and never because the key is empty.
C20_TokenOnlyForItsHost ==
  InCycle =>
    \A j \in 1..Len(jobs) :
      jobs[j].pc # "start" =>
        \A key \in {jobs[j].order[i] : i \in 1..Len(jobs[j].order)} :
          /\ (jobs[j].pull # <<>> /\ jobs[j].pull = config.Auths.m[key].Auth) =>
               KeyNamesHost(key, jobs[j].img.Source)
          /\ (jobs[j].push # <<>> /\ jobs[j].push = config.Auths.m[key].Auth) =>
               KeyNamesHost(key, jobs[j].img.Target)

====
